---- MODULE Spec2Model ----
(***************************************************************************)
(* State-machine model of src/rypersensitivity.js: the target registry     *)
(* (EnhancedTargetManager), the rate-limited trigger (SmartAutoFire), the  *)
(* per-axis filter, the predictor, the drag lock and the control loop      *)
(* (EnhancedAimLockEngine) with its start/stop timer.                      *)
(*                                                                         *)
(* Number representation.  JavaScript numbers are modelled in fixed point: *)
(*   - wall-clock times (Date.now()) are integer milliseconds;             *)
(*   - a duration in seconds (deltaTime, lockDuration, minLockTime) is the *)
(*     integer number of milliseconds, i.e. seconds * MsPerSec;            *)
(*   - switchCooldown is stored times MsPerSec, because the code arms it   *)
(*     with switchDelay (200) and decrements it by deltaTime in seconds;   *)
(*   - lengths and vector components are integers in units of 1/PosScale;  *)
(*   - dimensionless reals in [0,1] (aim accuracy, Math.random(), filter   *)
(*     gain, covariance) are integers in units of 1/Milli.                 *)
(* Division rounds towards minus infinity.                                 *)
(***************************************************************************)
EXTENDS Integers, Sequences, FiniteSets, TLC

VARIABLES
  now,              \* Date.now(), ms
  config,           \* the configuration object handed to the constructors
  heap,             \* target objects allocated by addTarget, by reference
  targets,          \* EnhancedTargetManager.targets: sequence of references
  currentTarget,    \* EnhancedTargetManager.currentTarget: reference or null
  targetLockTime,   \* EnhancedTargetManager.targetLockTime
  switchCooldown,   \* EnhancedTargetManager.switchCooldown (times MsPerSec)
  kalmanX, kalmanY, kalmanZ,   \* the three AdvancedKalmanFilter objects
  positionHistory,  \* TargetPredictor.positionHistory
  velocity,         \* EnhancedDragLock.velocity
  lastPosition,     \* EnhancedDragLock.lastPosition
  cameraPosition,   \* EnhancedCamera.position
  lastFireTime,     \* SmartAutoFire.lastFireTime, ms
  consecutiveHits,  \* SmartAutoFire.consecutiveHits
  accuracy,         \* SmartAutoFire.accuracy (Milli)
  performance,      \* the PerformanceMonitor object
  isActive,         \* EnhancedAimLockEngine.isActive
  lastUpdateTime,   \* EnhancedAimLockEngine.lastUpdateTime, ms
  updateInterval,   \* EnhancedAimLockEngine.updateInterval: handle or null
  currentAccuracy,  \* EnhancedAimLockEngine.currentAccuracy (Milli)
  lockDuration,     \* EnhancedAimLockEngine.lockDuration (seconds * MsPerSec)
  totalShots,       \* EnhancedAimLockEngine.totalShots
  totalHits,        \* EnhancedAimLockEngine.totalHits
  intervals,        \* the runtime's interval timers: handle -> time last run
  advances,         \* history: number of clock advances so far
  fireTimes,        \* history: the times stamped into lastFireTime
  lastCall          \* history: the call made by the last step and its result

tmVars == <<heap, targets, currentTarget, targetLockTime, switchCooldown>>
kalmanVars == <<kalmanX, kalmanY, kalmanZ>>
dragVars == <<velocity, lastPosition>>
fireVars == <<lastFireTime, consecutiveHits, accuracy, fireTimes>>
engineVars == <<isActive, lastUpdateTime, updateInterval, currentAccuracy,
                lockDuration, totalShots, totalHits>>
\* everything an EnhancedTargetManager call leaves alone
notTM == <<kalmanVars, positionHistory, dragVars, cameraPosition, fireVars,
           performance, engineVars, intervals>>
vars == <<now, config, tmVars, notTM, advances, lastCall>>

----------------------------------------------------------------------------
(* Bounds of the model *)

\* the clock reading at construction (the real one is about 1.7e12)
StartTime == 100
\* number of clock advances explored
MaxAdvances == 1
\* number of addTarget calls explored
MaxAdds == 2
\* number of start() calls explored
MaxStarts == 2
\* number of clock advances explored between timer callbacks
MaxElapses == 2
\* number of clock advances explored between direct fire calls
MaxFireAdvances == 3
\* number of addPosition calls explored after a reset
MaxSamples == 12
\* number of clock advances explored between direct addPosition calls
MaxSampleAdvances == 2
\* number of applyDragLock calls explored
MaxDragTicks == 300
\* clock advances between direct updateAimLock calls
MaxLockAdvances == 3
\* direct update and predict calls on one filter, clock advances included
MaxKalmanCalls == 7

(* Fixed-point scales *)
MsPerSec == 1000
PosScale == 10000
Milli == 1000

null == 0

Range(s) == {s[i] : i \in DOMAIN s}

\* the history record of a call: its name and result, the selection and the
\* cooldown it found; the last three fields are set by a tick only (fire was
\* invoked, passed canFire, drew a hit)
Call(op, result) ==
  [ op |-> op, result |-> result,
    prev |-> currentTarget, cooldown |-> switchCooldown,
    fireInvoked |-> FALSE, firePassed |-> FALSE, fireHit |-> FALSE ]

----------------------------------------------------------------------------
(* Vector3 *)

Vector3(x, y, z) == [x |-> x, y |-> y, z |-> z]

add(a, b) == Vector3(a.x + b.x, a.y + b.y, a.z + b.z)
subtract(a, b) == Vector3(a.x - b.x, a.y - b.y, a.z - b.z)
\* multiply by the real num/den
multiply(a, num, den) ==
  Vector3((a.x * num) \div den, (a.y * num) \div den, (a.z * num) \div den)
lerp(a, b, num, den) == add(a, multiply(subtract(b, a), num, den))

RECURSIVE SqrtSearch(_, _, _)
SqrtSearch(n, lo, hi) ==
  IF lo >= hi THEN lo
  ELSE LET mid == (lo + hi + 1) \div 2
       IN IF mid * mid <= n THEN SqrtSearch(n, mid, hi)
          ELSE SqrtSearch(n, lo, mid - 1)
\* Math.sqrt, rounded down to the fixed-point grid
Sqrt(n) == SqrtSearch(n, 0, 46340)

\* components up to FineLimit are squared as they are; longer vectors are
\* measured on a grid Coarse times wider, so that the squares stay inside
\* 32-bit integers
FineLimit == 26000
Coarse == 32
Abs(n) == IF n < 0 THEN -n ELSE n
IsFine(a) == Abs(a.x) <= FineLimit /\ Abs(a.y) <= FineLimit /\ Abs(a.z) <= FineLimit
SumOfSquares(x, y, z) == x * x + y * y + z * z
length(a) ==
  IF IsFine(a) THEN Sqrt(SumOfSquares(a.x, a.y, a.z))
  ELSE Coarse * Sqrt(SumOfSquares(Abs(a.x) \div Coarse, Abs(a.y) \div Coarse,
                                  Abs(a.z) \div Coarse))
distanceTo(a, b) == length(subtract(a, b))

----------------------------------------------------------------------------
(* Configuration *)

\* EnhancedConfig, in the fixed-point units above
EnhancedConfig ==
  [ dragForce          |-> 5,
    snapThreshold      |-> 14,          \* 0.0014
    velocityThreshold  |-> 1000,        \* 0.1 per second
    maxDistance        |-> 999990000,   \* 99999
    longRangeMultiplier |-> 1200,       \* 1.2  (Milli)
    maxPredictionTime  |-> 150,         \* ms
    predictionWeight   |-> 300,         \* 0.3  (Milli)
    kalmanR            |-> 4,           \* 0.004 (Milli)
    kalmanQ            |-> 10,          \* 0.01 (Milli)
    smoothingFactor    |-> 1,           \* 0.001 (Milli)
    headLockOnly       |-> TRUE,
    instantSwitch      |-> FALSE,
    switchDelay        |-> 200,
    targetTimeout      |-> 2000,        \* ms
    maxTargetDistance  |-> 999990000,   \* 99999
    enableSnap         |-> TRUE,
    fireOnLock         |-> TRUE,
    minLockTime        |-> 10,          \* 0.01 s
    fireRate           |-> 60,          \* ms
    maxFireDistance    |-> 999990000,   \* 99999
    minAccuracy        |-> 0,
    maxFPS             |-> 144 ]

\* The configurations the components are constructed with: EnhancedConfig
\* with instant switching off or on, and with maxTargetDistance 1 instead of
\* 99999, so that the distance term of the score spans its whole range over
\* the positions below (and the score stays inside TLC's 32-bit integers).
Configs ==
  { [EnhancedConfig EXCEPT !.instantSwitch = b,
                           !.maxTargetDistance = PosScale] : b \in BOOLEAN }

----------------------------------------------------------------------------
(* Inputs of the calls *)

Positions == { Vector3(0, 0, 0), Vector3(6000, 8000, 0) }
\* arguments of addTarget: position, priority, targetType
TargetInputs ==
  { <<Vector3(0, 0, 0), 1, "head">>,
    <<Vector3(6000, 8000, 0), 1, "head">>,
    <<Vector3(6000, 8000, 0), 2, "hips">> }
\* outcomes of Math.random(), in units of 1/Milli
RandomDraws == { 0, 500 }
\* clock advances between two timer callbacks, ms
Steps == { 7, 60, 2000 }
\* deltaTime arguments of a direct EnhancedTargetManager.update call (seconds
\* times MsPerSec): 150 s
DeltaTimes == { 150000 }
\* the observer position passed to a direct getBestTarget call
CameraInputs == { Vector3(0, 0, 0) }
\* arguments of a direct SmartAutoFire.fire call: target.distance, aimAccuracy
FireDistances == { 0, 10000 }
AimInputs == { 0, 850, 1000 }
\* arguments of a direct updateAccuracy call
Performances == { 0, 500, 1000 }
\* clock advances between two direct fire calls, ms
FireSteps == { 30, 60 }
\* clock advances between two direct addPosition calls, ms
SampleSteps == { 50 }
\* timeAhead arguments of a direct predictPosition call (seconds * MsPerSec)
TimesAhead == { 150 }
\* measurement arguments of a direct AdvancedKalmanFilter.update call
Measurements == { 0, 6000, -8000 }
\* dt arguments of a direct predict call (seconds * MsPerSec)
PredictDeltas == { 7, 1000 }
\* clock advances between two direct filter calls, ms
KalmanSteps == { 50 }
\* clock advances between two direct updateAimLock calls, ms
LockSteps == { 7 }
\* the stationary target (10, 0, 0) and the frame time 1/144 s, in whole
\* milliseconds as Date.now() gives it, of the drag lock run
DragTargets == { Vector3(10 * PosScale, 0, 0) }
DragDeltaTimes == { 7 }

----------------------------------------------------------------------------
(* EnhancedTargetManager *)

\* the object literal built by addTarget; id = Date.now() + Math.random()
NewTarget(position, priority, targetType, r) ==
  [ id         |-> now * Milli + r,
    position   |-> position,
    priority   |-> priority,
    targetType |-> targetType,
    lastSeen   |-> now,
    isVisible  |-> TRUE,
    health     |-> 100,
    distance   |-> 0 ]

\* targets.find(t => t.id === targetId): first match in array order, or null
RECURSIVE FindFrom(_, _, _, _)
FindFrom(h, ts, targetId, i) ==
  IF i > Len(ts) THEN null
  ELSE IF h[ts[i]].id = targetId THEN ts[i]
  ELSE FindFrom(h, ts, targetId, i + 1)
find(h, ts, targetId) == FindFrom(h, ts, targetId, 1)

\* the filter predicate of getBestTarget
IsValidTarget(t, currentTime) ==
  /\ t.isVisible
  /\ currentTime - t.lastSeen < config.targetTimeout
  /\ t.health > 0

\* calculateTargetScore, times maxDistance (an exact integer: the code only
\* compares scores with one another).  h is the heap, o the target scored.
calculateTargetScore(h, o) ==
  LET t == h[o]
      maxDistance == IF config.maxTargetDistance = 0 THEN 50 * PosScale
                     ELSE config.maxTargetDistance
      far == IF maxDistance - t.distance > 0 THEN maxDistance - t.distance ELSE 0
  IN  t.priority * 100 * maxDistance + far * 50
      + (IF t.targetType = "head" /\ config.headLockOnly
         THEN 30 * maxDistance ELSE 0)
      + (IF currentTarget # null /\ h[currentTarget].id = t.id
         THEN 20 * maxDistance ELSE 0)

\* faulty variant: the selection loop lets a later entity win a tie
RECURSIVE BestFrom_LastWins(_, _, _, _)
BestFrom_LastWins(h, valid, i, best) ==
  IF i > Len(valid) THEN best
  ELSE IF calculateTargetScore(h, valid[i]) >= calculateTargetScore(h, best)
       THEN BestFrom_LastWins(h, valid, i + 1, valid[i])
       ELSE BestFrom_LastWins(h, valid, i + 1, best)

\* the selection loop of getBestTarget: index i onwards, best so far
RECURSIVE BestFrom(_, _, _, _)
BestFrom(h, valid, i, best) ==
  IF i > Len(valid) THEN best
  ELSE IF calculateTargetScore(h, valid[i]) > calculateTargetScore(h, best)
       THEN BestFrom(h, valid, i + 1, valid[i])
       ELSE BestFrom(h, valid, i + 1, best)

\* faulty variant: the negation of instantSwitch is lost
SwitchDeferred_NotNegated == switchCooldown > 0 /\ config.instantSwitch

\* the test that defers a switch (line 302)
SwitchDeferred == switchCooldown > 0 /\ ~config.instantSwitch

\* faulty variant: a committed switch leaves the cooldown as it was
ArmedCooldown_Kept == switchCooldown

\* the value line 305 arms the cooldown with: switchDelay, as it is
ArmedCooldown == config.switchDelay * MsPerSec

\* getBestTarget(cameraPos): the value returned and the fields it leaves
getBestTarget(cameraPos) ==
  LET none == [ result |-> null, heap |-> heap,
                currentTarget |-> currentTarget,
                switchCooldown |-> switchCooldown ]
      validTargets == SelectSeq(targets, LAMBDA o : IsValidTarget(heap[o], now))
      h == [ o \in DOMAIN heap |->
               IF o \in Range(validTargets)
               THEN [heap[o] EXCEPT !.distance = distanceTo(cameraPos, heap[o].position)]
               ELSE heap[o] ]
      bestTarget == BestFrom(h, validTargets, 2, validTargets[1])
  IN  IF Len(targets) = 0 THEN none
      ELSE IF Len(validTargets) = 0 THEN none
      ELSE IF currentTarget # null /\ h[currentTarget].id # h[bestTarget].id
      THEN IF SwitchDeferred
           THEN [ result |-> currentTarget, heap |-> h,
                  currentTarget |-> currentTarget,
                  switchCooldown |-> switchCooldown ]
           ELSE [ result |-> bestTarget, heap |-> h,
                  currentTarget |-> bestTarget,
                  switchCooldown |-> ArmedCooldown ]
      ELSE [ result |-> bestTarget, heap |-> h,
             currentTarget |-> bestTarget,
             switchCooldown |-> switchCooldown ]

\* faulty variant: update never takes anything off the cooldown
CooldownAfterUpdate_Frozen(cooldown, deltaTime) == cooldown

\* faulty variant: removeTarget forgets the selection
CurrentAfterRemove_Kept(targetId) == currentTarget

\* currentTarget after removeTarget(targetId)
CurrentAfterRemove(targetId) ==
  IF currentTarget # null /\ heap[currentTarget].id = targetId
  THEN null ELSE currentTarget

\* update(deltaTime): the cooldown afterwards, from the cooldown before
CooldownAfterUpdate(cooldown, deltaTime) ==
  IF cooldown > 0 THEN cooldown - deltaTime ELSE cooldown

----------------------------------------------------------------------------
(* AdvancedKalmanFilter *)

\* the constructor's default for its third parameter, 0.1 (Milli)
processNoise == 100

\* the fields set by the constructor, and again by reset()
NewKalman ==
  [ state |-> <<0, 0>>,
    covariance |-> << <<Milli, 0>>, <<0, Milli>> >>,
    isInitialized |-> FALSE,
    lastTime |-> now ]

\* faulty variant: predict propagates the whole covariance, F P F^T, so the
\* entry [1][0] picks up dt * covariance[1][1]
KalmanPredict_Symmetric(k, dt) ==
  IF ~k.isInitialized THEN k
  ELSE LET s == k.state
           c == k.covariance
       IN  [k EXCEPT
              !.state = << s[1] + (s[2] * dt) \div MsPerSec, s[2] >>,
              !.covariance =
                << << c[1][1] + (dt * c[2][1]) \div MsPerSec + processNoise,
                      c[1][2] + (dt * c[2][2]) \div MsPerSec >>,
                   << c[2][1] + (dt * c[2][2]) \div MsPerSec,
                      c[2][2] + processNoise >> >> ]

\* predict(dt), dt in seconds * MsPerSec
KalmanPredict(k, dt) ==
  IF ~k.isInitialized THEN k
  ELSE LET s == k.state
           c == k.covariance
       IN  [k EXCEPT
              !.state = << s[1] + (s[2] * dt) \div MsPerSec, s[2] >>,
              !.covariance =
                << << c[1][1] + (dt * c[2][1]) \div MsPerSec + processNoise,
                      c[1][2] + (dt * c[2][2]) \div MsPerSec >>,
                   << c[2][1],
                      c[2][2] + processNoise >> >> ]

\* lines 98-117 of update: the correction, from the predicted filter p, its
\* covariance c, the gain K and the residual
KalmanCorrect(p, c, K, residual, st) ==
  [ filter |->
      [p EXCEPT
         !.state = st,
         !.covariance =
           << << ((Milli - K[1]) * c[1][1]) \div Milli,
                 ((Milli - K[1]) * c[1][2]) \div Milli >>,
              << c[2][1] - (K[2] * c[1][1]) \div Milli,
                 c[2][2] - (K[2] * c[1][2]) \div Milli >> >> ],
    value |-> st[1] ]

\* the Kalman gain (line 100) from the covariance c
KalmanGain(c) ==
  << (c[1][1] * Milli) \div (c[1][1] + config.kalmanR),
     (c[2][1] * Milli) \div (c[1][1] + config.kalmanR) >>

\* lines 103-105: the state after the correction
KalmanState(p, K, residual) ==
  << p.state[1] + (K[1] * residual) \div Milli,
     p.state[2] + (K[2] * residual) \div Milli >>

KalmanMeasure(p, K, measurement) ==
  KalmanCorrect(p, p.covariance, K, measurement - p.state[1],
                KalmanState(p, K, measurement - p.state[1]))

\* update(measurement): the filter afterwards and the value returned
KalmanUpdate(k, measurement) ==
  IF ~k.isInitialized
  THEN [ filter |-> [k EXCEPT !.lastTime = now,
                              !.state = <<measurement, 0>>,
                              !.isInitialized = TRUE],
         value |-> measurement ]
  ELSE KalmanMeasure(KalmanPredict([k EXCEPT !.lastTime = now], now - k.lastTime),
                     KalmanGain(KalmanPredict([k EXCEPT !.lastTime = now],
                                              now - k.lastTime).covariance),
                     measurement)

\* reset()
KalmanReset(k) == NewKalman

\* getPredictedPosition(timeAhead), timeAhead in seconds * MsPerSec
getPredictedPosition(k, timeAhead) ==
  IF ~k.isInitialized THEN 0
  ELSE k.state[1] + (k.state[2] * timeAhead) \div MsPerSec

\* getVelocity()
getVelocity(k) == IF k.isInitialized THEN k.state[2] ELSE 0

----------------------------------------------------------------------------
(* TargetPredictor *)

maxHistorySize == 10

\* faulty variant: on overflow the newest sample is dropped, not the oldest
addPosition_DropsNewest(history, position, timestamp, from) ==
  IF Len(history) >= maxHistorySize THEN history
  ELSE Append(history,
              [position |-> position, time |-> timestamp, from |-> from])

\* addPosition(position, timestamp); from is a history field: where the
\* sample came from (the target object in a tick, the number of the call in a
\* direct call)
addPosition(history, position, timestamp, from) ==
  LET pushed == Append(history,
                  [position |-> position, time |-> timestamp, from |-> from])
  IN  IF Len(pushed) > maxHistorySize THEN Tail(pushed) ELSE pushed

\* the loop of predictPosition: sum of the pair velocities from index i on
RECURSIVE VelocitySum(_, _)
VelocitySum(recent, i) ==
  IF i > Len(recent) THEN Vector3(0, 0, 0)
  ELSE LET dt == recent[i].time - recent[i-1].time
           rest == VelocitySum(recent, i + 1)
       IN  IF dt > 0
           THEN add(multiply(subtract(recent[i].position, recent[i-1].position),
                             MsPerSec, dt), rest)
           ELSE rest

\* predictPosition(timeAhead), timeAhead in seconds * MsPerSec
predictPosition(history, timeAhead) ==
  IF Len(history) < 2
  THEN IF Len(history) = 1 THEN history[1].position ELSE Vector3(0, 0, 0)
  ELSE LET n == Len(history)
           recent == SubSeq(history, IF n > 3 THEN n - 2 ELSE 1, n)
           avgVelocity == multiply(VelocitySum(recent, 2), 1, Len(recent) - 1)
       IN  add(history[n].position, multiply(avgVelocity, timeAhead, MsPerSec))

----------------------------------------------------------------------------
(* EnhancedDragLock *)

\* applyDragLock(currentPos, targetPos, deltaTime): the position returned and
\* the fields of the drag lock afterwards
applyDragLock(currentPos, targetPos, deltaTime) ==
  LET delta == subtract(targetPos, currentPos)
      distance == length(delta)
      force == IF distance > config.maxDistance
               THEN config.dragForce * config.longRangeMultiplier
               ELSE config.dragForce * Milli
      targetVelocity == multiply(delta, force, Milli)
      v == lerp(velocity, targetVelocity, config.smoothingFactor, Milli)
      movement == multiply(v, deltaTime, MsPerSec)
      next == add(currentPos, movement)
  IN  IF /\ distance < config.snapThreshold
         /\ length(v) < config.velocityThreshold
         /\ config.enableSnap
      THEN [ result |-> targetPos, velocity |-> v, lastPosition |-> lastPosition ]
      ELSE [ result |-> next, velocity |-> v, lastPosition |-> next ]

----------------------------------------------------------------------------
(* SmartAutoFire *)

\* faulty variant: no rate limiting
canFire_NoRateLimit(targetDistance, aimAccuracy) ==
  IF targetDistance > config.maxFireDistance THEN FALSE
  ELSE IF aimAccuracy < config.minAccuracy THEN FALSE
  ELSE TRUE

\* canFire(targetDistance, aimAccuracy)
canFire(targetDistance, aimAccuracy) ==
  LET timeSinceLastFire == now - lastFireTime
  IN  IF timeSinceLastFire < config.fireRate THEN FALSE
      ELSE IF targetDistance > config.maxFireDistance THEN FALSE
      ELSE IF aimAccuracy < config.minAccuracy THEN FALSE
      ELSE TRUE

\* fire(target, aimAccuracy), r the outcome of Math.random(): the value
\* returned and the trigger's fields afterwards
fire(targetDistance, aimAccuracy, r) ==
  IF ~canFire(targetDistance, aimAccuracy)
  THEN [ result |-> FALSE, passed |-> FALSE, lastFireTime |-> lastFireTime,
         consecutiveHits |-> consecutiveHits, fireTimes |-> fireTimes ]
  ELSE LET hitChance == (aimAccuracy * accuracy) \div Milli
           hit == r < hitChance
       IN  [ result |-> hit, passed |-> TRUE, lastFireTime |-> now,
             consecutiveHits |-> IF hit THEN consecutiveHits + 1 ELSE 0,
             fireTimes |-> Append(fireTimes, now) ]

\* updateAccuracy(recentPerformance): the new accuracy
updateAccuracy(recentPerformance) ==
  LET capped == IF recentPerformance < Milli THEN recentPerformance ELSE Milli
  IN  IF capped > 100 THEN capped ELSE 100

----------------------------------------------------------------------------
(* Initial state: the engine as constructed *)

\* new EnhancedAimLockEngine(c)
Constructed(c) ==
  /\ now = StartTime
  /\ config = c
  /\ heap = << >>
  /\ targets = << >>
  /\ currentTarget = null
  /\ targetLockTime = 0
  /\ switchCooldown = 0
  /\ kalmanX = NewKalman
  /\ kalmanY = NewKalman
  /\ kalmanZ = NewKalman
  /\ positionHistory = << >>
  /\ velocity = Vector3(0, 0, 0)
  /\ lastPosition = Vector3(0, 0, 0)
  /\ cameraPosition = Vector3(0, 0, 0)
  /\ lastFireTime = 0
  /\ consecutiveHits = 0
  /\ accuracy = 10 * Milli
  /\ performance = [ frameCount |-> 0, lastFpsUpdate |-> now, fps |-> 0,
                     frameTime |-> 0, lastFrameTime |-> now ]
  /\ isActive = FALSE
  /\ lastUpdateTime = now
  /\ updateInterval = null
  /\ currentAccuracy = 0
  /\ lockDuration = 0
  /\ totalShots = 0
  /\ totalHits = 0
  /\ intervals = << >>
  /\ fireTimes = << >>
  /\ advances = 0
  /\ lastCall = Call("new", null)

\* the engine of the demo: instant switching off
Init == Constructed(CHOOSE c \in Configs : ~c.instantSwitch)

\* a target manager with instant switching off or on
InitTM == \E c \in Configs : Constructed(c)

----------------------------------------------------------------------------
(* Calls on the target manager *)

\* ids a caller can pass: those handed out by addTarget, and one never issued
KnownIds == { heap[o].id : o \in DOMAIN heap } \cup { 1 }

AddTarget ==
  \E in \in TargetInputs, r \in RandomDraws :
    /\ Len(heap) < MaxAdds
    /\ heap' = Append(heap, NewTarget(in[1], in[2], in[3], r))
    /\ targets' = Append(targets, Len(heap) + 1)
    /\ lastCall' = Call("addTarget", Len(heap) + 1)
    /\ UNCHANGED <<notTM, now, config, advances, currentTarget, targetLockTime, switchCooldown>>

UpdateTarget ==
  \E targetId \in KnownIds, newPosition \in Positions :
    LET target == find(heap, targets, targetId)
    IN  /\ heap' = IF target # null
                   THEN [heap EXCEPT ![target].position = newPosition,
                                     ![target].lastSeen = now,
                                     ![target].isVisible = TRUE]
                   ELSE heap
        /\ lastCall' = Call("updateTarget", target)
        /\ UNCHANGED <<notTM, now, config, advances, targets, currentTarget, targetLockTime,
                       switchCooldown>>

RemoveTarget ==
  \E targetId \in KnownIds :
    /\ targets' = SelectSeq(targets, LAMBDA o : heap[o].id # targetId)
    /\ currentTarget' = CurrentAfterRemove(targetId)
    /\ lastCall' = Call("removeTarget",
                        IF currentTarget # null /\ heap[currentTarget].id = targetId
                        THEN currentTarget ELSE null)
    /\ UNCHANGED <<notTM, now, config, advances, heap, targetLockTime, switchCooldown>>

GetBestTarget ==
  \E cameraPos \in CameraInputs :
    LET r == getBestTarget(cameraPos)
    IN  /\ heap' = r.heap
        /\ currentTarget' = r.currentTarget
        /\ switchCooldown' = r.switchCooldown
        /\ lastCall' = Call("getBestTarget", r.result)
        /\ UNCHANGED <<notTM, now, config, advances, targets, targetLockTime>>

Update ==
  \E deltaTime \in DeltaTimes :
    /\ switchCooldown' = CooldownAfterUpdate(switchCooldown, deltaTime)
    /\ lastCall' = Call("update", null)
    /\ UNCHANGED <<notTM, now, config, advances, heap, targets, currentTarget, targetLockTime>>

\* the wall clock moves on between two calls
Advance ==
  \E d \in { 2000 } :
    /\ advances < MaxAdvances
    /\ advances' = advances + 1
    /\ now' = now + d
    /\ lastCall' = Call("advance", null)
    /\ UNCHANGED <<config, tmVars, notTM>>

----------------------------------------------------------------------------
(* PerformanceMonitor *)

startFrame(perf) == [perf EXCEPT !.lastFrameTime = now]

endFrame(perf) ==
  LET counted == [perf EXCEPT !.frameTime = now - perf.lastFrameTime,
                              !.frameCount = perf.frameCount + 1]
  IN  IF now - perf.lastFpsUpdate > 1000
      THEN [counted EXCEPT !.fps = counted.frameCount,
                           !.frameCount = 0,
                           !.lastFpsUpdate = now]
      ELSE counted

----------------------------------------------------------------------------
(* EnhancedAimLockEngine *)

\* getHitRate() (Milli), from the two counters
getHitRate(shots, hits) ==
  IF shots > 0 THEN (hits * Milli) \div shots ELSE 0

\* the test of line 559 on the value fire returned
CountsAsShot(fired) == fired

\* faulty variant: the lock duration survives the loss of the target
resetTracking_KeepsLock ==
  /\ kalmanX' = KalmanReset(kalmanX)
  /\ kalmanY' = KalmanReset(kalmanY)
  /\ kalmanZ' = KalmanReset(kalmanZ)
  /\ positionHistory' = << >>
  /\ lockDuration' = lockDuration

\* resetTracking()
resetTracking ==
  /\ kalmanX' = KalmanReset(kalmanX)
  /\ kalmanY' = KalmanReset(kalmanY)
  /\ kalmanZ' = KalmanReset(kalmanZ)
  /\ positionHistory' = << >>
  /\ lockDuration' = 0

\* lines 556-567 of updateAimLock: the auto fire logic on the value f that
\* fire would return, then "update systems"
AutoFire(target, deltaTime, cooldown, acc, invoked, f) ==
  LET fired == invoked /\ f.result
      shots == IF CountsAsShot(fired) THEN totalShots + 1 ELSE totalShots
      hits == IF CountsAsShot(fired) /\ acc > 900
              THEN totalHits + 1 ELSE totalHits
  IN  /\ lastFireTime' = IF invoked THEN f.lastFireTime ELSE lastFireTime
      /\ consecutiveHits' = IF invoked THEN f.consecutiveHits ELSE consecutiveHits
      /\ fireTimes' = IF invoked THEN f.fireTimes ELSE fireTimes
      /\ totalShots' = shots
      /\ totalHits' = hits
      /\ switchCooldown' = CooldownAfterUpdate(cooldown, deltaTime)
      /\ accuracy' = updateAccuracy(getHitRate(shots, hits))
      /\ lastCall' = [ Call("updateAimLock", target) EXCEPT
                         !.fireInvoked = invoked,
                         !.firePassed = invoked /\ f.passed,
                         !.fireHit = fired ]

\* faulty variant: a tick of low quality does not reset the lock duration
LockAfter_NoReset(acc, deltaTime) == lockDuration + deltaTime

\* lines 549-554: the lock duration after this tick
LockAfter(acc, deltaTime) ==
  IF acc > 800 THEN lockDuration + deltaTime ELSE 0

\* lines 549-563, given the accuracy acc of this tick
Lock(r, target, t, deltaTime, cooldown, acc, lock) ==
  /\ currentAccuracy' = acc
  /\ lockDuration' = lock
  /\ AutoFire(target, deltaTime, cooldown, acc,
              config.fireOnLock /\ lock > config.minLockTime,
              fire(t.distance, acc, r))

\* lines 545-547: currentAccuracy from the new position
AimAccuracy(newPos, finalTarget) ==
  LET aimError == distanceTo(newPos, finalTarget)
      quality == Milli - (aimError * Milli) \div config.snapThreshold
  IN  IF quality > 0 THEN quality ELSE 0

\* lines 541-547, given the result drag of applyDragLock
Steer(r, target, t, deltaTime, cooldown, finalTarget, drag) ==
  /\ velocity' = drag.velocity
  /\ lastPosition' = drag.lastPosition
  /\ cameraPosition' = drag.result
  /\ Lock(r, target, t, deltaTime, cooldown,
          AimAccuracy(drag.result, finalTarget),
          LockAfter(AimAccuracy(drag.result, finalTarget), deltaTime))

\* lines 537-539: blend of the filtered and the predicted position
FinalTarget(t, filteredPos, predictedPos) ==
  LET ratio == (t.distance * Milli) \div (20 * PosScale)
      blendFactor == IF ratio < Milli THEN ratio ELSE Milli
  IN  lerp(filteredPos, predictedPos,
           (blendFactor * config.predictionWeight) \div Milli, Milli)

\* lines 523-543, given the new history and the three filter updates
Track(r, target, t, deltaTime, cooldown, history, kx, ky, kz, finalTarget) ==
  /\ positionHistory' = history
  /\ kalmanX' = kx.filter
  /\ kalmanY' = ky.filter
  /\ kalmanZ' = kz.filter
  /\ Steer(r, target, t, deltaTime, cooldown, finalTarget,
           applyDragLock(cameraPosition, finalTarget, deltaTime))

\* lines 523-535, given the filter updates
Filtered(r, target, t, deltaTime, cooldown, history, kx, ky, kz) ==
  Track(r, target, t, deltaTime, cooldown, history, kx, ky, kz,
        FinalTarget(t, Vector3(kx.value, ky.value, kz.value),
                    predictPosition(history, config.maxPredictionTime)))

\* lines 515-575, given the result sel of getBestTarget
Tick(r, deltaTime, sel) ==
  /\ lastUpdateTime' = now
  /\ heap' = sel.heap
  /\ currentTarget' = sel.currentTarget
  /\ UNCHANGED <<targets, targetLockTime>>
  /\ performance' = endFrame(startFrame(performance))
  /\ IF sel.result = null
     THEN /\ resetTracking
          /\ switchCooldown' = sel.switchCooldown
          /\ lastCall' = Call("updateAimLock", null)
          /\ UNCHANGED <<dragVars, cameraPosition, fireVars, currentAccuracy,
                         totalShots, totalHits>>
     ELSE Filtered(r, sel.result, sel.heap[sel.result], deltaTime,
                   sel.switchCooldown,
                   addPosition(positionHistory, sel.heap[sel.result].position,
                               now, sel.result),
                   KalmanUpdate(kalmanX, sel.heap[sel.result].position.x),
                   KalmanUpdate(kalmanY, sel.heap[sel.result].position.y),
                   KalmanUpdate(kalmanZ, sel.heap[sel.result].position.z))

\* updateAimLock(); r is the outcome of Math.random() should fire draw it
updateAimLock(r) ==
  Tick(r, now - lastUpdateTime, getBestTarget(cameraPosition))

\* clearInterval(handle) on the runtime's timer table
clearInterval(handle) ==
  IF handle = null THEN intervals
  ELSE [intervals EXCEPT ![handle].active = FALSE]

\* faulty variant: the callback does not look at the flag
CallbackRunsBody_Always == TRUE

\* the test at the top of the interval callback (line 607)
CallbackRunsBody == isActive

\* start()
Start ==
  /\ Len(intervals) < MaxStarts
  /\ isActive' = TRUE
  /\ lastUpdateTime' = now
  /\ intervals' = Append(intervals, [active |-> TRUE, lastRun |-> now])
  /\ updateInterval' = Len(intervals) + 1
  /\ lastCall' = Call("start", Len(intervals) + 1)
  /\ UNCHANGED <<now, config, advances, tmVars, kalmanVars, positionHistory,
                 dragVars, cameraPosition, fireVars, performance,
                 currentAccuracy, lockDuration, totalShots, totalHits>>

\* stop()
Stop ==
  /\ isActive' = FALSE
  /\ intervals' = clearInterval(updateInterval)
  /\ updateInterval' = null
  /\ lastCall' = Call("stop", updateInterval)
  /\ UNCHANGED <<now, config, advances, tmVars, kalmanVars, positionHistory,
                 dragVars, cameraPosition, fireVars, performance,
                 lastUpdateTime, currentAccuracy, lockDuration, totalShots,
                 totalHits>>

\* the callback given to setInterval runs for a scheduled timer whose period
\* (1000 / maxFPS ms) has elapsed
IntervalCallback ==
  \E handle \in DOMAIN intervals, r \in RandomDraws :
    /\ intervals[handle].active
    /\ now - intervals[handle].lastRun >= MsPerSec \div config.maxFPS
    /\ IF CallbackRunsBody
       THEN /\ updateAimLock(r)
            /\ intervals' = [intervals EXCEPT ![handle].lastRun = now]
            /\ UNCHANGED <<isActive, updateInterval>>
       ELSE /\ intervals' = [clearInterval(updateInterval) EXCEPT ![handle].lastRun = now]
            /\ lastCall' = Call("idleCallback", handle)
            /\ UNCHANGED <<tmVars, kalmanVars, positionHistory, dragVars,
                           cameraPosition, fireVars, performance, engineVars>>
    /\ UNCHANGED <<now, config, advances>>

\* the wall clock moves on between two timer callbacks
Elapse ==
  \E d \in Steps :
    /\ advances < MaxElapses
    /\ advances' = advances + 1
    /\ now' = now + d
    /\ lastCall' = Call("advance", null)
    /\ UNCHANGED <<config, tmVars, notTM>>

NextTM ==
  \/ AddTarget
  \/ UpdateTarget
  \/ RemoveTarget
  \/ GetBestTarget
  \/ Update
  \/ Advance

\* the target manager driven through its public methods
SpecTM == InitTM /\ [][NextTM]_vars

----------------------------------------------------------------------------
(* Calls on the trigger *)

FireCall ==
  \E targetDistance \in FireDistances, aimAccuracy \in AimInputs,
     r \in RandomDraws :
    LET f == fire(targetDistance, aimAccuracy, r)
    IN  /\ lastFireTime' = f.lastFireTime
        /\ consecutiveHits' = f.consecutiveHits
        /\ fireTimes' = f.fireTimes
        /\ lastCall' = [ Call("fire", null) EXCEPT !.fireInvoked = TRUE,
                                                    !.firePassed = f.passed,
                                                    !.fireHit = f.result ]
        /\ UNCHANGED <<now, config, advances, tmVars, kalmanVars,
                       positionHistory, dragVars, cameraPosition, accuracy,
                       performance, engineVars, intervals>>

UpdateAccuracyCall ==
  \E recentPerformance \in Performances :
    /\ accuracy' = updateAccuracy(recentPerformance)
    /\ lastCall' = Call("updateAccuracy", null)
    /\ UNCHANGED <<now, config, advances, tmVars, kalmanVars, positionHistory,
                   dragVars, cameraPosition, lastFireTime, consecutiveHits,
                   fireTimes, performance, engineVars, intervals>>

AdvanceFire ==
  \E d \in FireSteps :
    /\ advances < MaxFireAdvances
    /\ advances' = advances + 1
    /\ now' = now + d
    /\ lastCall' = Call("advance", null)
    /\ UNCHANGED <<config, tmVars, notTM>>

NextFire ==
  \/ FireCall
  \/ UpdateAccuracyCall
  \/ AdvanceFire

\* the trigger driven through its public methods
SpecFire == Init /\ [][NextFire]_vars

----------------------------------------------------------------------------
(* The engine *)

Next ==
  \/ Start
  \/ Stop
  \/ IntervalCallback
  \/ AddTarget
  \/ Elapse

\* the engine: start, stop, the timer callbacks and the target feed
Spec == Init /\ [][Next]_vars

----------------------------------------------------------------------------
(* Direct calls on the predictor *)

\* the number of addPosition calls since the last reset, read off the newest
\* sample: a direct call tags its sample (field from) with its number
SamplesAdded ==
  IF positionHistory = << >> THEN 0
  ELSE positionHistory[Len(positionHistory)].from

AddPositionCall ==
  \E position \in Positions :
    /\ SamplesAdded < MaxSamples
    /\ positionHistory' = addPosition(positionHistory, position, now,
                                      SamplesAdded + 1)
    /\ lastCall' = Call("addPosition", SamplesAdded + 1)
    /\ UNCHANGED <<now, config, advances, tmVars, kalmanVars, dragVars,
                   cameraPosition, fireVars, performance, engineVars, intervals>>

PredictPositionCall ==
  \E timeAhead \in TimesAhead :
    /\ lastCall' = Call("predictPosition",
                        predictPosition(positionHistory, timeAhead))
    /\ UNCHANGED <<now, config, advances, tmVars, notTM>>

\* TargetPredictor.reset()
ResetCall ==
  /\ positionHistory' = << >>
  /\ lastCall' = Call("reset", null)
  /\ UNCHANGED <<now, config, advances, tmVars, kalmanVars, dragVars,
                 cameraPosition, fireVars, performance, engineVars, intervals>>

\* the wall clock moves on between two direct calls
AdvanceSample ==
  \E d \in SampleSteps :
    /\ advances < MaxSampleAdvances
    /\ advances' = advances + 1
    /\ now' = now + d
    /\ lastCall' = Call("advance", null)
    /\ UNCHANGED <<config, tmVars, notTM>>

NextPredictor ==
  \/ AddPositionCall
  \/ PredictPositionCall
  \/ ResetCall
  \/ AdvanceSample

SpecPredictor == Init /\ [][NextPredictor]_vars

----------------------------------------------------------------------------
(* Repeated direct calls on the drag lock, the way a tick makes them *)

\* newPos = applyDragLock(camera.position, target, dt); camera.setPosition
ApplyDragLockCall ==
  \E targetPos \in DragTargets, deltaTime \in DragDeltaTimes :
    LET d == applyDragLock(cameraPosition, targetPos, deltaTime)
    IN  /\ advances < MaxDragTicks
        /\ advances' = advances + 1
        /\ cameraPosition' = d.result
        /\ velocity' = d.velocity
        /\ lastPosition' = d.lastPosition
        /\ lastCall' = Call("applyDragLock", targetPos)
        /\ UNCHANGED <<now, config, tmVars, kalmanVars, positionHistory,
                       fireVars, performance, engineVars, intervals>>

NextDrag == ApplyDragLockCall

SpecDrag == Init /\ [][NextDrag]_vars

----------------------------------------------------------------------------
(* The target manager under ticks that keep occurring *)

NextHold ==
  \/ AddTarget
  \/ UpdateTarget
  \/ GetBestTarget
  \/ Update

\* every tick calls getBestTarget and then update(deltaTime): with ticks that
\* keep occurring, getBestTarget is called again and again, and update is not
\* put off for ever while it has a cooldown to count down
SpecHold ==
  /\ Init
  /\ [][NextHold]_vars
  /\ []<><<GetBestTarget>>_vars
  /\ WF_vars(Update)

----------------------------------------------------------------------------
(* Direct calls of updateAimLock *)

\* an engine constructed with fireOnLock on or off
InitLock ==
  \E b \in BOOLEAN :
    Constructed([(CHOOSE c \in Configs : ~c.instantSwitch)
                   EXCEPT !.fireOnLock = b])

\* updateAimLock() called by the host itself, no timer involved, at most
\* once per reading of the clock
UpdateAimLockCall ==
  \E r \in RandomDraws :
    /\ now > lastUpdateTime
    /\ updateAimLock(r)
    /\ UNCHANGED <<now, config, advances, isActive, updateInterval, intervals>>

AdvanceLock ==
  \E d \in LockSteps :
    /\ advances < MaxLockAdvances
    /\ advances' = advances + 1
    /\ now' = now + d
    /\ lastCall' = Call("advance", null)
    /\ UNCHANGED <<config, tmVars, notTM>>

NextLock ==
  \/ AddTarget
  \/ RemoveTarget
  \/ UpdateAimLockCall
  \/ AdvanceLock

\* the engine ticked by direct calls, its registry fed and emptied
SpecLock == InitLock /\ [][NextLock]_vars

----------------------------------------------------------------------------
(* Direct calls on one AdvancedKalmanFilter *)

KalmanUpdateCall ==
  \E measurement \in Measurements :
    /\ advances < MaxKalmanCalls
    /\ advances' = advances + 1
    /\ kalmanX' = KalmanUpdate(kalmanX, measurement).filter
    /\ lastCall' = Call("kalmanUpdate", KalmanUpdate(kalmanX, measurement).value)
    /\ UNCHANGED <<now, config, tmVars, kalmanY, kalmanZ, positionHistory,
                   dragVars, cameraPosition, fireVars, performance, engineVars,
                   intervals>>

KalmanPredictCall ==
  \E dt \in PredictDeltas :
    /\ advances < MaxKalmanCalls
    /\ advances' = advances + 1
    /\ kalmanX' = KalmanPredict(kalmanX, dt)
    /\ lastCall' = Call("kalmanPredict", dt)
    /\ UNCHANGED <<now, config, tmVars, kalmanY, kalmanZ, positionHistory,
                   dragVars, cameraPosition, fireVars, performance, engineVars,
                   intervals>>

KalmanResetCall ==
  /\ kalmanX' = KalmanReset(kalmanX)
  /\ lastCall' = Call("kalmanReset", null)
  /\ UNCHANGED <<now, config, advances, tmVars, kalmanY, kalmanZ,
                 positionHistory, dragVars, cameraPosition, fireVars,
                 performance, engineVars, intervals>>

GetPredictedPositionCall ==
  \E timeAhead \in TimesAhead :
    /\ lastCall' = Call("getPredictedPosition",
                        getPredictedPosition(kalmanX, timeAhead))
    /\ UNCHANGED <<now, config, advances, tmVars, notTM>>

\* the wall clock moves on between two direct calls
AdvanceKalman ==
  \E d \in KalmanSteps :
    /\ advances < MaxKalmanCalls
    /\ advances' = advances + 1
    /\ now' = now + d
    /\ lastCall' = Call("advance", null)
    /\ UNCHANGED <<config, tmVars, notTM>>

NextKalman ==
  \/ KalmanUpdateCall
  \/ KalmanPredictCall
  \/ KalmanResetCall
  \/ GetPredictedPositionCall
  \/ AdvanceKalman

\* one filter driven through its public methods
SpecKalman == Init /\ [][NextKalman]_vars

----------------------------------------------------------------------------
(* Vocabulary of the properties *)

\* the entities of the registry that are visible, unexpired and healthy
ValidSet ==
  { o \in Range(targets) :
      /\ heap[o].isVisible
      /\ now - heap[o].lastSeen < config.targetTimeout
      /\ heap[o].health > 0 }

\* the one observer position of the direct getBestTarget calls
Observer == CHOOSE c \in CameraInputs : TRUE

\* the score of entity o seen from cameraPos, times maxTargetDistance:
\* priority*100 + distance term + category bonus + 20 for the selection
ScoreOf(o, cameraPos) ==
  LET d == distanceTo(cameraPos, heap[o].position)
      D == config.maxTargetDistance
  IN  heap[o].priority * 100 * D
      + (IF d < D THEN (D - d) * 50 ELSE 0)
      + (IF heap[o].targetType = "head" /\ config.headLockOnly THEN 30 * D ELSE 0)
      + (IF currentTarget # null /\ heap[currentTarget].id = heap[o].id
         THEN 20 * D ELSE 0)

\* the valid entities whose score is the highest
HighestScorers(cameraPos) ==
  { o \in ValidSet :
      \A q \in ValidSet : ScoreOf(o, cameraPos) >= ScoreOf(q, cameraPos) }

\* the last step was a selection (a direct call, or the one a tick makes)
Selected == lastCall.op \in { "getBestTarget", "updateAimLock" }

----------------------------------------------------------------------------
(* C1 *)

\* C1 (as claimed): every entity getBestTarget returns is, at the moment of
\* the call, visible, unexpired (now - lastSeen < targetTimeout) and has
\* health > 0.  The code returns the previous selection unfiltered while the
\* switch cooldown is active, so this fails once that entity has expired.
C1_ReturnedIsValid ==
  (Selected /\ lastCall.result # null) => lastCall.result \in ValidSet

----------------------------------------------------------------------------
(* C2 *)

\* C2: whenever the current selection is A, a different entity B has the
\* highest score, the switch cooldown is > 0 and instant switch is off,
\* getBestTarget returns A and the current selection remains A.  Entities are
\* told apart by id, as line 301 does: the entity returned and the selection
\* afterwards bear A's id, and they are A itself when no other entity of the
\* registry bears A's id.
C2_HysteresisHold ==
  [][ ( /\ lastCall'.op = "getBestTarget"
        /\ currentTarget # null
        /\ \E B \in HighestScorers(Observer) :
             heap[B].id # heap[currentTarget].id
        /\ switchCooldown > 0
        /\ ~config.instantSwitch )
      => ( /\ lastCall'.result # null
           /\ currentTarget' # null
           /\ heap[lastCall'.result].id = heap[currentTarget].id
           /\ heap[currentTarget'].id = heap[currentTarget].id
           /\ switchCooldown' = switchCooldown
           /\ (\A o \in Range(targets) \ {currentTarget} :
                 heap[o].id # heap[currentTarget].id)
              => ( /\ lastCall'.result = currentTarget
                   /\ currentTarget' = currentTarget ) ) ]_vars

\* a selection was held: the call returned the current selection although
\* another valid entity scores higher than it, itself valid
C2_Witness ==
  /\ lastCall.op = "getBestTarget"
  /\ currentTarget # null
  /\ lastCall.result = currentTarget
  /\ currentTarget \in ValidSet
  /\ switchCooldown > 0
  /\ ~config.instantSwitch
  /\ \E B \in HighestScorers(Observer) :
       /\ heap[B].id # heap[currentTarget].id
       /\ ScoreOf(B, Observer) > ScoreOf(currentTarget, Observer)

----------------------------------------------------------------------------
(* C3 *)

\* C3 (as claimed): whenever the registry holds exactly one valid entity,
\* getBestTarget returns that entity.  It fails for the same reason as C1:
\* during the cooldown the expired previous selection is returned instead.
C3_OnlyValidIsReturned ==
  (Selected /\ Cardinality(ValidSet) = 1) => lastCall.result \in ValidSet

----------------------------------------------------------------------------
(* C6 *)

\* C6: the current selection is none or an entity still in the registry;
\* removeTarget(id) of the selected entity clears the selection, and the next
\* getBestTarget then selects a highest scorer whatever the cooldown, without
\* touching the cooldown.
C6_SelectionInRegistry ==
  [][ /\ currentTarget' # null => currentTarget' \in Range(targets')
      /\ ( /\ lastCall'.op = "removeTarget"
           /\ currentTarget # null
           /\ currentTarget \notin Range(targets') )
         => currentTarget' = null
      /\ ( /\ lastCall'.op = "getBestTarget"
           /\ lastCall.op = "removeTarget"
           /\ lastCall.result # null
           /\ ValidSet # {} )
         => ( /\ lastCall'.result \in HighestScorers(Observer)
              /\ currentTarget' = lastCall'.result
              /\ switchCooldown' = switchCooldown ) ]_vars

\* the selected entity was just removed, while the cooldown was active and
\* another entity remains in the registry
C6_Witness ==
  /\ lastCall.op = "removeTarget"
  /\ lastCall.result # null
  /\ currentTarget = null
  /\ targets # << >>
  /\ switchCooldown > 0
  /\ ~config.instantSwitch

----------------------------------------------------------------------------
(* C7 *)

\* C7 (as claimed): no two entities ever created by addTarget share an id.
\* The id is Date.now() + Math.random(), so two adds in one millisecond whose
\* random draws coincide get the same id.
C7_IdsUnique ==
  \A i, j \in DOMAIN heap : i # j => heap[i].id # heap[j].id

----------------------------------------------------------------------------
(* C4 *)

\* C4: stop() clears the running flag, which only start() sets again; the
\* tick body (updateAimLock) runs only while the flag is set, for every
\* interleaving of start(), stop() and timer callbacks; and stop() called
\* when already stopped changes nothing.
C4_NoTickAfterStop ==
  [][ /\ lastCall'.op = "stop" => ~isActive'
      /\ (~isActive /\ isActive') => lastCall'.op = "start"
      /\ lastCall'.op = "updateAimLock" => isActive
      /\ (lastCall'.op = "stop" /\ ~isActive)
         => UNCHANGED <<now, config, tmVars, notTM, advances>> ]_vars

\* a timer callback arrived after stop() and did not run the tick body
C4_Witness ==
  /\ lastCall.op = "idleCallback"
  /\ ~isActive
  /\ performance.frameCount > 0

----------------------------------------------------------------------------
(* C5 *)

\* C5: a fire call made less than fireRate after the last stamped fire
\* returns failure and leaves lastFireTime and consecutiveHits unchanged, and
\* any two stamped fire times are at least fireRate apart.
C5_RateLimit ==
  [][ /\ ( /\ lastCall'.fireInvoked
           /\ fireTimes # << >>
           /\ now - fireTimes[Len(fireTimes)] < config.fireRate )
         => ( /\ ~lastCall'.fireHit
              /\ ~lastCall'.firePassed
              /\ lastFireTime' = lastFireTime
              /\ consecutiveHits' = consecutiveHits
              /\ fireTimes' = fireTimes )
      /\ \A i, j \in DOMAIN fireTimes' :
           i < j => fireTimes'[j] - fireTimes'[i] >= config.fireRate ]_vars

\* a fire call was refused by the rate limit after two fires had been stamped
C5_Witness ==
  /\ lastCall.op = "fire"
  /\ ~lastCall.firePassed
  /\ Len(fireTimes) >= 2
  /\ now - fireTimes[Len(fireTimes)] < config.fireRate
  /\ now - fireTimes[Len(fireTimes)] > 0

----------------------------------------------------------------------------
(* C8 *)

\* C8 (as claimed): at the end of every tick, every sample of the predictor
\* history was recorded from the entity that is the current selection.  The
\* code resets the history only when no target is returned, so the samples of
\* the previous selection survive a switch.
C8_HistoryOfSelectionOnly ==
  lastCall.op = "updateAimLock"
    => \A i \in DOMAIN positionHistory : positionHistory[i].from = currentTarget

----------------------------------------------------------------------------
(* C9 *)

\* C9: a tick in which getBestTarget returns none leaves the three filters
\* uninitialized, the predictor history empty and the lock duration 0, does
\* not invoke fire, and leaves the observer position, the trigger state, the
\* shot and hit counters, the drag lock, the registry and the selection
\* unchanged.
C9_IdleTick ==
  [][ (lastCall'.op = "updateAimLock" /\ lastCall'.result = null)
      => ( /\ ~kalmanX'.isInitialized
           /\ ~kalmanY'.isInitialized
           /\ ~kalmanZ'.isInitialized
           /\ positionHistory' = << >>
           /\ lockDuration' = 0
           /\ ~lastCall'.fireInvoked
           /\ UNCHANGED <<cameraPosition, lastFireTime, consecutiveHits,
                          accuracy, fireTimes, totalShots, totalHits>>
           /\ UNCHANGED <<dragVars, currentAccuracy, tmVars, isActive,
                          updateInterval, now, config>> ) ]_vars

\* the target was lost after a lock that had fired: the tick returned none
\* with shots on the counter
C9_Witness ==
  /\ lastCall.op = "updateAimLock"
  /\ lastCall.result = null
  /\ totalShots > 0
  /\ targets # << >>

----------------------------------------------------------------------------
(* C10 *)

\* C10 (as claimed): in every tick that invokes fire, totalShots increases by
\* exactly 1 and totalHits increases by 1 exactly when the alignment quality
\* is > 0.9, whether the trigger's draw succeeded or failed.  The code counts
\* only when fire returns true, i.e. when the call was not refused and the
\* draw was a hit.
C10_EveryInvocationCounts ==
  [][ (lastCall'.op = "updateAimLock" /\ lastCall'.fireInvoked)
      => ( /\ totalShots' = totalShots + 1
           /\ totalHits' = totalHits + (IF currentAccuracy' > 900 THEN 1 ELSE 0) )
    ]_vars

----------------------------------------------------------------------------
(* C11 *)

\* C11 (as claimed): with the stationary target at (10, 0, 0), the observer
\* starting at the origin and the default smoothing parameters, the
\* observer's distance to the target never increases from one applyDragLock
\* call to the next.  The velocity is blended by smoothingFactor = 0.001 per
\* call while the pull is 5 * delta: the observer arrives with a large
\* velocity, passes the target and moves away from it.
C11_DistanceNonIncreasing ==
  [][ lastCall'.op = "applyDragLock"
      => distanceTo(cameraPosition', lastCall'.result)
           <= distanceTo(cameraPosition, lastCall'.result) ]_vars

----------------------------------------------------------------------------
(* C12 *)

\* C12 (as claimed): the switch cooldown is never negative.  update(deltaTime)
\* subtracts deltaTime whenever the cooldown is > 0 and has no floor.
C12_CooldownNonNegative == switchCooldown >= 0

----------------------------------------------------------------------------
(* C13 *)

\* the history holds the samples numbered n - min(n, 10) + 1 .. n, in that
\* order, n being the number of the newest
C13_LastSamplesInOrder ==
  LET h == positionHistory
  IN  /\ Len(h) <= maxHistorySize
      /\ \A i \in 1 .. Len(h) - 1 : h[i + 1].from = h[i].from + 1
      /\ h # << >> =>
           Len(h) = (IF SamplesAdded > maxHistorySize
                     THEN maxHistorySize ELSE SamplesAdded)
      /\ lastCall.op = "reset" => h = << >>

\* what one addPosition call does to the history: the sample it adds is the
\* newest, and the samples before it are the newest of those that were there,
\* unchanged and in their order
C13_AddKeepsNewest ==
  LET old == positionHistory
      new == positionHistory'
      shift == Len(old) - (Len(new) - 1)
  IN  lastCall'.op = "addPosition"
      => /\ new # << >>
         /\ new[Len(new)].from = lastCall'.result
         /\ new[Len(new)].time = now
         /\ lastCall'.result = SamplesAdded + 1
         /\ shift \in { 0, 1 }
         /\ \A i \in 1 .. Len(new) - 1 : new[i] = old[i + shift]

\* C13: the predictor history is a bounded FIFO: after any sequence of
\* addPosition and reset calls its length is at most 10 and its contents are
\* the last min(n, 10) samples added since the last reset, in insertion order
\* (the oldest sample is the one evicted on overflow).
C13_BoundedFifo == []C13_LastSamplesInOrder /\ [][C13_AddKeepsNewest]_vars

\* twelve samples were added since the last reset: the history holds the
\* third to the twelfth
C13_Witness ==
  /\ lastCall.op = "addPosition"
  /\ lastCall.result = 12
  /\ Len(positionHistory) = maxHistorySize
  /\ positionHistory[1].from = 3

----------------------------------------------------------------------------
(* C17 *)

\* the velocity of the pair of samples i - 1, i (per second)
PairVelocity(recent, i) ==
  multiply(subtract(recent[i].position, recent[i - 1].position),
           MsPerSec, recent[i].time - recent[i - 1].time)

\* the pairs of consecutive samples with positive elapsed time
PositivePairs(recent) ==
  { i \in 2 .. Len(recent) : recent[i].time - recent[i - 1].time > 0 }

\* the sum of the velocities of the pairs in S
RECURSIVE SumOfPairs(_, _)
SumOfPairs(recent, S) ==
  IF S = { } THEN Vector3(0, 0, 0)
  ELSE LET i == CHOOSE j \in S : TRUE
       IN  add(PairVelocity(recent, i), SumOfPairs(recent, S \ { i }))

\* the last (up to) 3 samples
LastThree(h) == SubSeq(h, IF Len(h) > 3 THEN Len(h) - 2 ELSE 1, Len(h))

\* lastPosition + avgVelocity * timeAhead, the average taken over the pairs
\* with positive elapsed time only
ExtrapolatedOverPositivePairs(h, timeAhead) ==
  LET recent == LastThree(h)
      S == PositivePairs(recent)
      avgVelocity == multiply(SumOfPairs(recent, S), 1, Cardinality(S))
  IN  add(h[Len(h)].position, multiply(avgVelocity, timeAhead, MsPerSec))

\* C17 (as claimed): predictPosition(timeAhead) with at least 2 samples
\* returns lastPosition + avgVelocity * timeAhead, avgVelocity being the
\* average of the pair velocities among the last (up to) 3 samples over the
\* pairs with positive elapsed time only.  The code skips the other pairs in
\* the sum but divides by the number of all pairs.
C17_AverageOverPositivePairs ==
  [][ ( /\ lastCall'.op = "predictPosition"
        /\ Len(positionHistory) >= 2
        /\ PositivePairs(LastThree(positionHistory)) # { } )
      => \E timeAhead \in TimesAhead :
           lastCall'.result =
             ExtrapolatedOverPositivePairs(positionHistory, timeAhead) ]_vars

----------------------------------------------------------------------------
(* C14 *)

\* the call committed a switch: there was a selection, and the selection
\* afterwards is another entity (told apart by id, as line 301 does)
CommittedSwitch ==
  /\ currentTarget # null
  /\ currentTarget' # null
  /\ heap[currentTarget'].id # heap[currentTarget].id

\* C14: getBestTarget changes the switch cooldown only when it commits a
\* switch from an existing selection to a different entity, and then sets it
\* to exactly switchDelay; a deferred switch, a re-selection of the same
\* entity and a first selection from none leave the cooldown unchanged.
C14_CooldownFrame ==
  [][ lastCall'.op = "getBestTarget"
      => ( /\ switchCooldown' # switchCooldown => CommittedSwitch
           /\ CommittedSwitch
              => switchCooldown' = config.switchDelay * MsPerSec
           /\ ( \/ currentTarget = null
                \/ currentTarget' = currentTarget
                \/ ~CommittedSwitch )
              => switchCooldown' = switchCooldown ) ]_vars

\* a call has just committed a switch and armed the cooldown, which had
\* another value before
C14_Witness ==
  /\ lastCall.op = "getBestTarget"
  /\ lastCall.prev # null
  /\ lastCall.result # null
  /\ currentTarget = lastCall.result
  /\ heap[lastCall.result].id # heap[lastCall.prev].id
  /\ switchCooldown = config.switchDelay * MsPerSec
  /\ lastCall.cooldown # switchCooldown

----------------------------------------------------------------------------
(* C15 *)

\* C15: when no hold applies (no current selection, or the cooldown is not
\* active, or instant switch is on) and some entity is valid, getBestTarget
\* returns a valid entity whose score (priority*100 + distance term +
\* category bonus + 20 for the current selection) is maximal among the valid
\* entities, and among those of maximal score the earliest of the registry.
C15_MaximalEarliest ==
  [][ ( /\ lastCall'.op = "getBestTarget"
        /\ ValidSet # { }
        /\ ( \/ currentTarget = null
             \/ switchCooldown <= 0
             \/ config.instantSwitch ) )
      => ( /\ lastCall'.result \in HighestScorers(Observer)
           /\ currentTarget' = lastCall'.result
           /\ \A i, j \in 1 .. Len(targets) :
                (i < j /\ targets[j] = lastCall'.result)
                => targets[i] \notin HighestScorers(Observer) ) ]_vars

\* a first selection has just resolved a tie: the entity returned and a later
\* entity of the registry had the same, maximal, score (the 20 the selection
\* earns since the call taken off)
C15_Witness ==
  /\ lastCall.op = "getBestTarget"
  /\ lastCall.prev = null
  /\ lastCall.result # null
  /\ lastCall.result \in ValidSet
  /\ LET A == lastCall.result
         top == ScoreOf(A, Observer) - 20 * config.maxTargetDistance
     IN  /\ \A q \in ValidSet :
               heap[q].id # heap[A].id => ScoreOf(q, Observer) <= top
         /\ \E i, j \in 1 .. Len(targets) :
              /\ i < j
              /\ targets[i] = A
              /\ targets[j] \in ValidSet
              /\ heap[targets[j]].id # heap[A].id
              /\ ScoreOf(targets[j], Observer) = top

----------------------------------------------------------------------------
(* C16 *)

\* C16: fire is invoked by a tick only if fireOnLock is set and the alignment
\* quality has been > 0.8 in every tick of an unbroken run of target-bearing
\* ticks whose summed deltaTime exceeds minLockTime; any tick with quality
\* <= 0.8 or with no target resets lockDuration to 0.  lockDuration is that
\* sum: only a tick changes it, a tick with a target and quality > 0.8 adds
\* its deltaTime to it, and every other tick sets it to 0.
C16_LockGating ==
  [][ /\ lastCall'.op # "updateAimLock" => lockDuration' = lockDuration
      /\ lastCall'.op = "updateAimLock"
         => ( /\ (lastCall'.result = null \/ currentAccuracy' <= 800)
                 => lockDuration' = 0
              /\ (lastCall'.result # null /\ currentAccuracy' > 800)
                 => lockDuration' = lockDuration + (now - lastUpdateTime)
              /\ lastCall'.fireInvoked
                 => ( /\ config.fireOnLock
                      /\ lastCall'.result # null
                      /\ currentAccuracy' > 800
                      /\ lockDuration' > config.minLockTime ) ) ]_vars

\* fire has just been invoked at the end of a run of two ticks of 7 ms
C16_Witness ==
  /\ lastCall.op = "updateAimLock"
  /\ lastCall.fireInvoked
  /\ config.fireOnLock
  /\ currentAccuracy > 800
  /\ lockDuration = 14

----------------------------------------------------------------------------
(* C18 *)

\* the selection is A while the valid entity B scores strictly higher than A
\* and than every other valid entity
Outscored(A, B) ==
  /\ A \in DOMAIN heap
  /\ B \in DOMAIN heap
  /\ A # B
  /\ currentTarget = A
  /\ ~config.instantSwitch
  /\ B \in ValidSet
  /\ ScoreOf(B, Observer) > ScoreOf(A, Observer)
  /\ \A q \in ValidSet \ { B } : ScoreOf(B, Observer) > ScoreOf(q, Observer)

\* C18: with instant switch off, if entity B scores strictly higher than the
\* current selection A on every tick and the ticks keep occurring (each
\* calling getBestTarget and update with an elapsed time > 0), the selection
\* eventually becomes B: the hold does not defer a switch for ever.
C18_SwitchEventually ==
  \A A, B \in 1 .. MaxAdds : []<>(currentTarget = B \/ ~Outscored(A, B))

\* a switch has just been committed after the cooldown, armed by an earlier
\* switch, had run out
C18_Witness ==
  /\ lastCall.op = "getBestTarget"
  /\ ~config.instantSwitch
  /\ lastCall.prev # null
  /\ lastCall.result # null
  /\ heap[lastCall.result].id # heap[lastCall.prev].id
  /\ currentTarget = lastCall.result
  /\ lastCall.cooldown < 0

----------------------------------------------------------------------------
(* C19 *)

\* the time update has counted since the cooldown was armed, ms: update is
\* given seconds, so a cooldown armed with switchDelay and now at
\* switchCooldown has seen switchDelay - switchCooldown seconds
ElapsedSinceArmed == config.switchDelay * MsPerSec - switchCooldown

\* C19 (as claimed): the cooldown armed with switchDelay (milliseconds)
\* stops deferring switches once ticks whose elapsed time sums to switchDelay
\* milliseconds have run: a call that defers a switch finds less than
\* switchDelay ms elapsed since the cooldown was armed.  The code arms the
\* cooldown with the number of milliseconds and takes seconds off it.
C19_CooldownInMilliseconds ==
  [][ ( /\ lastCall'.op = "getBestTarget"
        /\ currentTarget # null
        /\ lastCall'.result = currentTarget
        /\ \E B \in HighestScorers(Observer) :
             heap[B].id # heap[currentTarget].id
        /\ switchCooldown > 0
        /\ ~config.instantSwitch )
      => ElapsedSinceArmed < config.switchDelay ]_vars

----------------------------------------------------------------------------
(* C20 *)

\* the timers the runtime has scheduled: set by setInterval, not yet cleared
ScheduledTimers == { h \in DOMAIN intervals : intervals[h].active }

\* C20 (as claimed): for any sequence of start() and stop() calls, start()
\* while already running included, at most one periodic timer is scheduled at
\* any time, and after stop() none remains scheduled.  start() schedules a
\* timer without clearing the one it overwrites the handle of, and stop()
\* clears only the timer of the handle it holds.
C20_SingleTimer ==
  /\ Cardinality(ScheduledTimers) <= 1
  /\ lastCall.op = "stop" => ScheduledTimers = { }

----------------------------------------------------------------------------
(* C21 *)

\* C21: the velocity estimate of an AdvancedKalmanFilter is 0 in every
\* reachable state: from construction or reset, after any sequence of update,
\* predict and reset calls with R > 0, the covariance entry [1][0] stays 0,
\* hence the gain K[1] is 0, the velocity state[1] stays 0, and
\* getPredictedPosition(timeAhead) equals the current position estimate for
\* every timeAhead.
C21_VelocityZero ==
  \A k \in { kalmanX, kalmanY, kalmanZ } :
    /\ config.kalmanR > 0
    /\ k.covariance[2][1] = 0
    /\ KalmanGain(k.covariance)[2] = 0
    /\ k.state[2] = 0
    /\ getVelocity(k) = 0
    /\ \A timeAhead \in TimesAhead \cup PredictDeltas :
         getPredictedPosition(k, timeAhead) = k.state[1]

\* an initialized filter has just corrected its estimate with a measurement
\* after a prediction over dt > 0: the covariance entry [0][1] is not 0 and
\* the position estimate has moved off its first measurement
C21_Witness ==
  /\ lastCall.op = "kalmanUpdate"
  /\ kalmanX.isInitialized
  /\ kalmanX.covariance[1][2] # 0
  /\ kalmanX.covariance[1][1] # Milli
  /\ kalmanX.state[1] \notin Measurements

====
